---- MODULE Spec2Model ----
(***************************************************************************)
(* Issue aggregation and AI summarization pipeline.                        *)
(*                                                                         *)
(* Part I models one HTTP fetch request: fetch_issues_logic (app.py) on    *)
(* top of fetch_issues_by_username (fetch_gitlab_issues.py).  The request  *)
(* advances one tracker call at a time; the tracker's answer to each call  *)
(* (a result list, a thread, or an error) is chosen nondeterministically.  *)
(* A fetch that is given a client and a provider (the command line's)      *)
(* attaches a summary to every comment it converts.                        *)
(*                                                                         *)
(* Part II models summarize requests (summarize_logic, get_llm_client,     *)
(* setup_llm_client) served by the threads of the Flask server against the *)
(* process-wide cached client, and the fetch_and_summarize handler that    *)
(* runs one after the other.                                               *)
(***************************************************************************)
EXTENDS Integers, Sequences, FiniteSets, TLC

\* ------------------------------------------------------------------ bounds
MaxIid == 3      \* issue iids the tracker may return: 1..MaxIid
MaxLen == 2      \* longest result list of one relation query
MaxNotes == 2    \* longest discussion thread of one issue

IIDs == 1..MaxIid

\* Every list of iids one relation query can return, duplicates included.
IidSeqs == UNION { [1..n -> IIDs] : n \in 0..MaxLen }

\* ------------------------------------------------------------- fetch state
VARIABLES
    fpc,              \* position of the fetch request
    project_url,      \* kind of the project locator sent by the caller
    username,         \* kind of the username sent by the caller
    assignee_only,    \* request flag (app.py:66)
    author_only,      \* request flag (app.py:67)
    calls,            \* tracker calls made so far, in order
    assigned_issues,  \* list returned by the assignee query
    authored_issues,  \* list returned by the author query
    issues,           \* the merged list being built
    comments,         \* comments[k] is issues[k].comments, once attached
    notes,            \* notes[k]: what the tracker answered for issues[k]
    err,              \* which error branch printed, "none" if none
    fetch_llm,        \* llm_client, provider, model given to the fetch
    fsent,            \* completion calls the fetch has made, in order
    result,           \* value returned by fetch_issues_by_username
    response          \* (dict, status) returned by fetch_issues_logic

fvars == <<fpc, project_url, username, assignee_only, author_only, calls,
           assigned_issues, authored_issues, issues, comments, notes, err,
           fetch_llm, fsent, result, response>>

\* -------------------------------------------------- summarize state (Part II)
VARIABLES
    environ,           \* which of GROQ_API_KEY / OPENAI_API_KEY are set
    _llm_client,       \* app.py:21, the process-wide cached client
    _llm_provider,     \* app.py:22, the provider identity cached with it
    spc,               \* spc[t]: position of thread t's summarize request
    provider,          \* provider[t]: data.get('provider', 'groq')
    issues_data,       \* issues_data[t]: data.get('issues', [])
    query,             \* query[t]: data.get('query', '')
    summary_type,      \* summary_type[t]: data.get('type', 'collection')
    model,             \* model[t]: data.get('model'), "None" if not given
    got,               \* got[t]: the pair get_llm_client returned to t
    llm_client,        \* llm_client[t]: the client t's request uses
    current_provider,  \* current_provider[t]: the identity t's request reports
    sent,              \* sent[t]: completion requests t's request has sent
    sresponse          \* sresponse[t]: (dict, status) of summarize_logic

svars == <<environ, _llm_client, _llm_provider, spc, provider, issues_data,
           query, summary_type, model, got, llm_client, current_provider,
           sent, sresponse>>

\* ---------------------------------------------- fetch_and_summarize state
VARIABLES
    cpc,               \* position of the fetch_and_summarize handler
    fetch_data         \* the dict fetch_and_summarize returns

cvars == <<cpc, fetch_data>>

vars == <<fvars, svars, cvars>>

\* Locator kinds: absent or empty; well formed (a string starting with
\* https://gitlab.com/, or an all-digit string that int() converts); a string
\* of digits int() rejects (str.isdigit() is true of it, int() raises); and
\* anything else.
LocatorKinds == {"missing", "valid", "unicode_digits", "other"}
UsernameKinds == {"missing", "given"}

\* Tracker failures: a gitlab.GitlabError (authorization, not-found,
\* rate-limit) or any other exception (transport).
Failures == {"gitlab", "transport"}

NoResult == [kind |-> "none", issues |-> <<>>, comments |-> <<>>]
NoResponse == [status |-> 0, success |-> FALSE, error |-> "none",
               issues |-> <<>>, count |-> 0]

\* ------------------------------------------------------- tracker's objects
\* The issue object the tracker client builds for the pos-th entry of the
\* list returned for relation rel.  rel and pos stand for the identity of the
\* Python object; id is the global identifier, iid the project-scoped one.
Issue(iid, rel, pos) ==
    [iid |-> iid, id |-> 100 + iid, rel |-> rel, pos |-> pos,
     title |-> "title", state |-> "opened", created_at |-> "t0",
     description |-> <<>>, author |-> [username |-> "ann", name |-> "Ann"]]

IssueList(s, rel) == [k \in 1..Len(s) |-> Issue(s[k], rel, k)]

\* The thread the tracker holds for an issue, ascending by creation time:
\* issue 1 has a thread of MaxNotes notes, the other issues have none yet.
NoAuthor == [username |-> "none"]
ThreadLen(iid) == IF iid = 1 THEN MaxNotes ELSE 0
Note(iid, k, malformed) ==
    [id |-> 10 * iid + k,
     author |-> IF malformed THEN NoAuthor ELSE [username |-> "bob"],
     body |-> "text",
     created_at |-> k]

\* bad = 0: every note is well formed; bad = k > 0: note k has no author.
Thread(iid, bad) == [k \in 1..ThreadLen(iid) |-> Note(iid, k, k = bad)]

ErrorMarker(cause) == [kind |-> "error", error |-> cause]

\* ------------------------------------------------- fetch_issues_by_username
\* fetch_assignee / fetch_author as fetch_issues_logic derives them.
FetchAssignee(authorOnly) == ~authorOnly

\* Mutant of FetchAuthor: the negation forgotten.
FetchAuthorNotNegated(assigneeOnly) == assigneeOnly

FetchAuthor(assigneeOnly) == ~assigneeOnly

\* The locator test of fetch_issues_by_username: startswith(...) or isdigit().
LocatorAccepted(url) == url \in {"valid", "unicode_digits"}

\* issues.extend(assigned_issues)
Extend(list, assigned) == list \o assigned

\* Mutant of AppendAuthored: the membership test inverted (`in` for `not in`).
AppendAuthoredInverted(list, authored) ==
    LET authored_issue_ids == { list[k].iid : k \in 1..Len(list) }
    IN  list \o SelectSeq(authored, LAMBDA x : x.iid \in authored_issue_ids)

\* Mutant of AppendAuthored: the loop stops at the first duplicate (`break`
\* where the code skips one issue).
AppendAuthoredStopsAtDuplicate(list, authored) ==
    LET authored_issue_ids == { list[k].iid : k \in 1..Len(list) }
        dups == { k \in 1..Len(authored) : authored[k].iid \in authored_issue_ids }
        stop == IF dups = {} THEN Len(authored) + 1
                ELSE CHOOSE k \in dups : \A j \in dups : k <= j
    IN  list \o SubSeq(authored, 1, stop - 1)

\* The author branch: the set of iids already in `list` is computed once,
\* before the loop; each authored issue whose iid is not in it is appended.
AppendAuthored(list, authored) ==
    LET authored_issue_ids == { list[k].iid : k \in 1..Len(list) }
    IN  list \o SelectSeq(authored, LAMBDA x : x.iid \notin authored_issue_ids)

\* The comment dict built from one note.
Comment(note) == [kind |-> "comment", id |-> note.id,
                  author |-> note.author.username,
                  body |-> note.body, created_at |-> note.created_at]

\* The except clause when issue.notes.list itself raises.
ListFailed(cause) == <<ErrorMarker(cause)>>

EmptyOnError == [kind |-> "list", issues |-> <<>>, comments |-> <<>>]

Call(op, iid) == [op |-> op, iid |-> iid]

\* ------------------------------------------------------ fetch_issues_logic
\* The JSON-serializable dict built from one issue object: the listed fields
\* are copied; the comments attribute is not among them.
IssueData(issue) ==
    [iid |-> issue.iid, id |-> issue.id, title |-> issue.title,
     state |-> issue.state, created_at |-> issue.created_at,
     author |-> [username |-> issue.author.username, name |-> issue.author.name],
     description |-> issue.description]

MissingFields == [status |-> 400, success |-> FALSE, error |-> "missing_fields",
                  issues |-> <<>>, count |-> 0]

\* The reply of the fetch_issues endpoint when fetch_issues_logic raises.
ServerError == [status |-> 500, success |-> FALSE, error |-> "exception",
                issues |-> <<>>, count |-> 0]

Success(list) == [status |-> 200, success |-> TRUE, error |-> "none",
                  issues |-> [k \in 1..Len(list) |-> IssueData(list[k])],
                  count |-> Len(list)]

\* ======================================================== summarize requests
NThreads == 2    \* server threads handling summarize requests at a time
Threads == 1..NThreads

\* Python's None, for a client and for a provider name.
None == [prov |-> "None", key |-> "None"]
NoProvider == "None"

\* Provider names a request can carry: the two supported ones, a supported one
\* in another letter case, and an unsupported one.
ProviderNames == {"groq", "openai", "GROQ", "other"}

\* "provider": null in the request body: data.get('provider', 'groq') is None.
NullProvider == "null"

\* str.lower()
Lower(name) == IF name = "GROQ" THEN "groq" ELSE name

\* The client object groq.Groq(api_key=key) / openai.OpenAI(api_key=key).
Client(prov, key) == [prov |-> prov, key |-> key]

\* setup_llm_client(provider, api_key), api_key given.  built: the provider's
\* package is installed and its constructor does not raise.
setup_llm_client(name, api_key, built) ==
    IF Lower(name) = "groq"
    THEN IF built THEN <<Client("groq", api_key), "groq">> ELSE <<None, name>>
    ELSE IF Lower(name) = "openai"
    THEN IF built THEN <<Client("openai", api_key), "openai">> ELSE <<None, name>>
    ELSE <<None, name>>

\* Mutant of get_default_model: the two providers' defaults exchanged.
get_default_modelExchanged(name) ==
    IF name = "groq" THEN "gpt-3.5-turbo"
    ELSE IF name = "openai" THEN "llama-3.3-70b-versatile"
    ELSE "llama-3.3-70b-versatile"

get_default_model(name) ==
    IF name = "groq" THEN "llama-3.3-70b-versatile"
    ELSE IF name = "openai" THEN "gpt-3.5-turbo"
    ELSE "llama-3.3-70b-versatile"

\* summarize_logic's choice of the key for a requested provider:
\* GROQ_API_KEY if provider == 'groq', else OPENAI_API_KEY; "" when unset.
KeyFor(name) ==
    IF name = "groq"
    THEN IF environ.GROQ_API_KEY THEN "GROQ_API_KEY" ELSE ""
    ELSE IF environ.OPENAI_API_KEY THEN "OPENAI_API_KEY" ELSE ""

\* Lines 136-139 of summarize_logic: the pair the request goes on with, from
\* the pair get_llm_client returned and the requested provider name.
Reresolve(pair, name, built) ==
    IF name # pair[2] /\ KeyFor(name) # ""
    THEN setup_llm_client(name, KeyFor(name), built)
    ELSE pair

\* --------------------------------------------------------------- text values
\* A text is modelled by what it says and, for an error description, the
\* cause it embeds.  NoText stands for a key that is absent from a dict.
Text(text, cause) == [text |-> text, cause |-> cause]
NoText == Text("None", "None")

\* Characters are numbered; a string of n characters is the sequence 1..n, so
\* that a prefix of it is recognisable.  Dot is the character '.'.
Dot == 0
Chars(n) == [k \in 1..n |-> k]

\* Query strings: '' (or an absent / null query), a string of blanks, a question.
Queries == {"", " ", "status?"}
\* str.strip()
Strip(q) == IF q = " " THEN "" ELSE q

\* ---------------------------------------------------- issues of a request
OverviewCap == 10     \* issues[:10]
PreviewCap == 100     \* description[:100]
MaxIssues == 2        \* longest issue list summarized issue by issue
MaxExtra == 2         \* issues beyond OverviewCap in an overview
MaxOver == 1          \* description characters beyond PreviewCap

\* dict.get(key, default)
Get(d, key, default) == IF key \in DOMAIN d THEN d[key] ELSE default

WellFormedAuthor == [username |-> "ann", name |-> "Ann"]
\* An author value that is a dict without 'name' (or not a dict at all, like
\* the bare username string the command line's JSON output carries).
MalformedAuthor == [username |-> "ann"]
DefaultAuthor == [username |-> "unknown", name |-> "Unknown"]

\* One element of data['issues'].  A description of no characters stands for
\* '', null and an absent key alike: all are falsy.
IssueDict(iid, description, author) ==
    [iid |-> iid, title |-> "title", state |-> "opened", created_at |-> "t0",
     description |-> description, author |-> author]

\* class MockIssue, app.py:144-151.
MockIssue(issue_data) ==
    [iid |-> Get(issue_data, "iid", Get(issue_data, "id", 0)),
     title |-> Get(issue_data, "title", ""),
     state |-> Get(issue_data, "state", ""),
     created_at |-> Get(issue_data, "created_at", ""),
     description |-> Get(issue_data, "description", <<>>),
     author |-> Get(issue_data, "author", DefaultAuthor)]

\* ------------------------------------------------------------ prompt shapes
\* A rendered prompt is the sequence of its variable lines.
Line(kind, iid, title, state, text, count, who) ==
    [kind |-> kind, iid |-> iid, title |-> title, state |-> state,
     text |-> text, count |-> count, who |-> who]

\* "Total issues: {len(issues)}"
TotalLine(n) == Line("total", 0, "", "", <<>>, n, "")
\* "- Issue #{iid}: {title} ({state})"
EntryLine(issue) == Line("entry", issue.iid, issue.title, issue.state, <<>>, 0, "")
\* "  Description: {desc_preview}"
DescriptionLine(issue, preview) == Line("description", issue.iid, "", "", preview, 0, "")
\* "... and {n} more issues"
MoreLine(n) == Line("more", 0, "", "", <<>>, n, "")
\* "User Query: {query}"
QueryLine(q) == Line("query", 0, "", "", <<>>, 0, q)

Min(a, b) == IF a <= b THEN a ELSE b

\* issues[:n]
FirstN(list, n) == SubSeq(list, 1, Min(Len(list), n))

Ellipsis == <<Dot, Dot, Dot>>

\* Mutant of Preview: the slice keeps one character more than the cap.
PreviewOffByOne(description) ==
    IF Len(description) > PreviewCap
    THEN SubSeq(description, 1, PreviewCap + 1) \o Ellipsis
    ELSE description

\* description[:100] + "..." if len(description) > 100 else description
Preview(description) ==
    IF Len(description) > PreviewCap
    THEN SubSeq(description, 1, PreviewCap) \o Ellipsis
    ELSE description

\* The loop of fetch_gitlab_issues.py:142-147 over a list of issues.
RECURSIVE OverviewEntries(_)
OverviewEntries(list) ==
    IF list = <<>> THEN <<>>
    ELSE <<EntryLine(Head(list))>>
         \o (IF Head(list).description # <<>>
             THEN <<DescriptionLine(Head(list), Preview(Head(list).description))>>
             ELSE <<>>)
         \o OverviewEntries(Tail(list))

\* Mutant of CollectionOverview: the remainder line is rendered from the cap
\* on, not only beyond it.
CollectionOverviewRemainderAtCap(list) ==
    <<TotalLine(Len(list))>>
    \o OverviewEntries(FirstN(list, OverviewCap))
    \o (IF Len(list) >= OverviewCap
        THEN <<MoreLine(Len(list) - OverviewCap)>> ELSE <<>>)

\* issues_overview of summarize_issues_collection_with_llm (lines 140-150).
CollectionOverview(list) ==
    <<TotalLine(Len(list))>>
    \o OverviewEntries(FirstN(list, OverviewCap))
    \o (IF Len(list) > OverviewCap
        THEN <<MoreLine(Len(list) - OverviewCap)>> ELSE <<>>)

\* Mutant of QueryOverview: the query line left out.
QueryOverviewNoPrefix(q, list) ==
    [k \in 1..Len(FirstN(list, OverviewCap)) |-> EntryLine(list[k])]

\* issues_overview of summarize_logic's query branch (app.py:173-175).
QueryOverview(q, list) ==
    <<QueryLine(q)>>
    \o [k \in 1..Len(FirstN(list, OverviewCap)) |-> EntryLine(list[k])]

\* c.get('body') is truthy: the dict has a body and it is not empty.
HasBody(c) == Get(c, "body", "") # ""

\* The comments summarize_issue_with_llm renders (lines 94-97): those of
\* issue.comments that have a body, when the issue has that attribute.
RenderedComments(issue) ==
    IF "comments" \in DOMAIN issue
    THEN SelectSeq(issue.comments, HasBody)
    ELSE <<>>

\* "{c.get('author', 'unknown')}: {c.get('body', '')}"
CommentLine(iid, c) ==
    Line("comment", iid, "", "", Get(c, "body", ""), 0, Get(c, "author", "unknown"))

\* issue_content of summarize_issue_with_llm (lines 93-108).
IssueContent(issue) ==
    <<EntryLine(issue),
      Line("author", issue.iid, "", "", <<>>, 0, issue.author.name),
      Line("created", issue.iid, "", "", <<>>, 0, issue.created_at),
      IF issue.description # <<>>
      THEN Line("description", issue.iid, "", "", issue.description, 0, "")
      ELSE Line("no_description", issue.iid, "", "", <<>>, 0, "")>>
    \o (IF RenderedComments(issue) = <<>>
        THEN <<Line("no_comments", issue.iid, "", "", <<>>, 0, "")>>
        ELSE [j \in 1..Len(RenderedComments(issue)) |->
                 CommentLine(issue.iid, RenderedComments(issue)[j])])

\* issue.author['name'] / issue.author['username'] raise on such an author.
AuthorRaises(issue) == ~({"name", "username"} \subseteq DOMAIN issue.author)

\* comment_content of summarize_comment_with_llm (lines 188-191).
CommentContent(comment) ==
    <<Line("comment", comment.id, "", "", <<>>, comment.created_at, comment.author)>>

\* ------------------------------------------------------------ completions
\* What the provider does with one completion call: it answers with text,
\* with empty text, raises, answers without a choice, or with null content.
Outcomes == {"text", "empty_content", "raises", "no_choice", "null_content"}

IndividualTokens == 200
CollectionTokens == 200
QueryTokens == 300
CommentTokens == 80
Temperature == "0.3"

\* One client.chat.completions.create call: its arguments, and what the
\* provider did with it.
ChatRequest(shape, client, model_, max_tokens, content, outcome) ==
    [shape |-> shape, client |-> client, model |-> model_,
     max_tokens |-> max_tokens, temperature |-> Temperature,
     content |-> content, outcome |-> outcome]

\* The try/except around a completion call: the trimmed content, or the
\* error description with the given prefix and the exception in it.
Completed(prefix, outcome) ==
    IF outcome = "text" THEN Text("summary", "None")
    ELSE IF outcome = "empty_content" THEN Text("", "None")
    ELSE IF outcome = "raises" THEN Text(prefix, "APIError")
    ELSE IF outcome = "no_choice" THEN Text(prefix, "IndexError")
    ELSE Text(prefix, "AttributeError")

\* What a summarization function does: it raises, or returns a text after
\* sending the requests in `sent`.
Raise == [raised |-> TRUE, text |-> NoText, sent |-> <<>>]
Returns(text, sent_) == [raised |-> FALSE, text |-> text, sent |-> sent_]

\* summarize_issue_with_llm(issue, client, provider, model), lines 86-129.
summarize_issue_with_llm(issue, client, name, model_, outcome) ==
    IF client = None
    THEN Returns(Text("LLM summarization not available", "None"), <<>>)
    ELSE IF AuthorRaises(issue) THEN Raise
    ELSE Returns(Completed("Error generating summary", outcome),
                 <<ChatRequest("individual", client,
                               IF model_ = "None" THEN get_default_model(name)
                               ELSE model_,
                               IndividualTokens, IssueContent(issue), outcome)>>)

\* summarize_issues_collection_with_llm(issues, client, provider, model),
\* lines 131-180.
summarize_issues_collection_with_llm(list, client, name, model_, outcome) ==
    IF client = None \/ list = <<>>
    THEN Returns(Text("No issues to summarize or LLM not available", "None"), <<>>)
    ELSE Returns(Completed("Error generating collection summary", outcome),
                 <<ChatRequest("collection", client,
                               IF model_ = "None" THEN get_default_model(name)
                               ELSE model_,
                               CollectionTokens, CollectionOverview(list), outcome)>>)

\* summarize_comment_with_llm(comment, client, provider, model), lines 182-209.
summarize_comment_with_llm(comment, client, name, model_, outcome) ==
    IF client = None
    THEN Returns(Text("LLM summarization not available", "None"), <<>>)
    ELSE IF ~({"author", "created_at", "body"} \subseteq DOMAIN comment) THEN Raise
    ELSE Returns(Completed("Error generating comment summary", outcome),
                 <<ChatRequest("comment", client,
                               IF model_ = "None" THEN get_default_model(name)
                               ELSE model_,
                               CommentTokens, CommentContent(comment), outcome)>>)

\* The query branch of summarize_logic, lines 171-199: with a null client the
\* attribute access llm_client.chat raises inside the try block, before any
\* request is sent.
QueryDirected(q, list, client, model_, outcome) ==
    IF client = None
    THEN Returns(Text("Error generating custom summary", "AttributeError"), <<>>)
    ELSE Returns(Completed("Error generating custom summary", outcome),
                 <<ChatRequest("query", client, model_, QueryTokens,
                               QueryOverview(q, list), outcome)>>)

\* ------------------------------------------------------- summarize_logic
\* (dict, status) values of summarize_logic; a key the dict does not have is
\* None / NoText / the empty list.
SResponse(status, success, error) ==
    [status |-> status, success |-> success, error |-> error,
     provider |-> NoProvider, model |-> "None", query |-> "",
     individual_summaries |-> <<>>, collection_summary |-> NoText]

NoIssues == SResponse(400, FALSE, "No issues provided for summarization")

\* Mutant of Unavailable: the missing provider reported as a success.
UnavailableAsSuccess == SResponse(200, TRUE, "No AI provider available")

Unavailable == SResponse(400, FALSE, "No AI provider available")

NoSResponse == SResponse(0, FALSE, "None")

\* summarize_logic raised: the summarize endpoint answers 500 with the
\* exception's text (app.py:215-216); fetch_and_summarize catches it (243).
Raised == SResponse(500, FALSE, "exception")

RECURSIVE Flatten(_)
Flatten(ss) == IF ss = <<>> THEN <<>> ELSE Head(ss) \o Flatten(Tail(ss))

\* `if query:` (app.py:171), the truth value of the string as sent.
TakesQueryPath(q) == q # ""

\* The list built by the loop of app.py:161-168 from what
\* summarize_issue_with_llm returned for each issue.
IndividualSummaries(mock_issues, summaries) ==
    [k \in 1..Len(mock_issues) |->
        [issue_id |-> mock_issues[k].iid, title |-> mock_issues[k].title,
         summary |-> summaries[k].text]]

\* Lines 140-204 of summarize_logic for a list of issue dicts, the request's
\* fields, the resolved (client, provider) pair and the provider's outcome o[k]
\* for the k-th completion call.  The value is the (dict, status) returned, or
\* Raised, together with the completion requests sent.
summarize_results(issues_data_, q, type, model_, client, name, o) ==
    LET used == IF model_ = "None" THEN get_default_model(name) ELSE model_
        mock_issues == [k \in 1..Len(issues_data_) |-> MockIssue(issues_data_[k])]
        n == Len(mock_issues)
        individual == type = "individual"
        summaries == [k \in 1..n |->
                        summarize_issue_with_llm(mock_issues[k], client, name,
                                                 used, o[k])]
        raising == IF individual THEN { k \in 1..n : summaries[k].raised } ELSE {}
        last == IF individual THEN n + 1 ELSE 1
        collection ==
            IF TakesQueryPath(q)
            THEN QueryDirected(q, mock_issues, client, used, o[last])
            ELSE summarize_issues_collection_with_llm(mock_issues, client, name,
                                                      used, o[last])
    IN  IF raising # {}
        THEN LET first == CHOOSE k \in raising : \A j \in raising : k <= j
             IN  [response |-> Raised,
                  sent |-> Flatten([k \in 1..(first - 1) |-> summaries[k].sent])]
        ELSE [response |->
                 [status |-> 200, success |-> TRUE, error |-> "None",
                  provider |-> name, model |-> used, query |-> q,
                  individual_summaries |->
                      IF individual
                      THEN IndividualSummaries(mock_issues, summaries)
                      ELSE <<>>,
                  collection_summary |-> collection.text],
              sent |-> (IF individual
                        THEN Flatten([k \in 1..n |-> summaries[k].sent])
                        ELSE <<>>) \o collection.sent]

\* Number of completion outcomes summarize_results may consult.
NCalls(issues_data_, type) ==
    (IF type = "individual" THEN Len(issues_data_) ELSE 0) + 1

\* The keyword arguments llm_client, provider and model of
\* fetch_issues_by_username; NoLlm is their defaults (line 211).
Llm(client, name, model_) == [client |-> client, provider |-> name, model |-> model_]
NoLlm == Llm(None, NoProvider, "None")

\* `if llm_client and provider:` (line 267)
SummarizesComments(llm) == llm.client # None /\ llm.provider # NoProvider

\* comment['llm_summary'] = ...: the dict with that key added.
WithSummary(comment, text) ==
    [x \in DOMAIN comment \cup {"llm_summary"} |->
        IF x = "llm_summary" THEN text ELSE comment[x]]

\* The comment dicts of the first n notes (lines 261-269), each with its
\* summary when the fetch summarizes comments; o[k] is the provider's outcome
\* for the k-th summary.
Converted(ns, n, llm, o) ==
    [k \in 1..n |->
        IF SummarizesComments(llm)
        THEN WithSummary(Comment(ns[k]),
                         summarize_comment_with_llm(Comment(ns[k]), llm.client,
                                                    llm.provider, llm.model,
                                                    o[k]).text)
        ELSE Comment(ns[k])]

\* The number of notes converted before the first one without an author.
ConvertedBeforeFailure(ns) ==
    LET bad == { k \in 1..Len(ns) : ns[k].author = NoAuthor }
    IN  IF bad = {} THEN Len(ns)
        ELSE (CHOOSE k \in bad : \A j \in bad : k <= j) - 1

\* Mutant of ReadNotes: the except clause replaces what was converted.
ReadNotesDroppingConverted(ns, llm, o) ==
    IF ConvertedBeforeFailure(ns) = Len(ns)
    THEN Converted(ns, Len(ns), llm, o)
    ELSE <<ErrorMarker("TypeError")>>

\* The loop over the notes of one issue: notes are converted in order; the
\* first note without an author raises, and the except clause appends the
\* error marker to what was converted so far.
ReadNotes(ns, llm, o) ==
    Converted(ns, ConvertedBeforeFailure(ns), llm, o)
        \o (IF ConvertedBeforeFailure(ns) = Len(ns) THEN <<>>
            ELSE <<ErrorMarker("TypeError")>>)

\* The completion calls made while the notes are read, in order.
SummaryCalls(ns, llm, o) ==
    IF SummarizesComments(llm)
    THEN Flatten([k \in 1..ConvertedBeforeFailure(ns) |->
                     summarize_comment_with_llm(Comment(ns[k]), llm.client,
                                                llm.provider, llm.model,
                                                o[k]).sent])
    ELSE <<>>

\* What the provider may do with a comment's completion call.
CommentOutcomes(llm) ==
    IF SummarizesComments(llm) THEN {"text", "raises"} ELSE {"text"}

\* ------------------------------------------------------------ fetch steps
FetchInit ==
    /\ fpc = "idle"
    /\ project_url = "missing"
    /\ username = "missing"
    /\ assignee_only = FALSE
    /\ author_only = FALSE
    /\ calls = <<>>
    /\ assigned_issues = <<>>
    /\ authored_issues = <<>>
    /\ issues = <<>>
    /\ comments = <<>>
    /\ notes = <<>>
    /\ err = "none"
    /\ fetch_llm = NoLlm
    /\ fsent = <<>>
    /\ result = NoResult
    /\ response = NoResponse

\* The checks made before any tracker call: fetch_issues_logic's of the
\* request fields, then fetch_issues_by_username's of the locator.  llm is
\* what the caller passes as llm_client, provider and model.
Begin(url, user, ao, auo, llm) ==
    /\ fetch_llm' = llm
    /\ fsent' = <<>>
    /\ UNCHANGED svars
    /\ UNCHANGED cvars
    /\ fpc = "idle"
    /\ project_url' = url
    /\ username' = user
    /\ assignee_only' = ao
    /\ author_only' = auo
    /\ calls' = <<>>
    /\ assigned_issues' = <<>>
    /\ authored_issues' = <<>>
    /\ issues' = <<>>
    /\ comments' = <<>>
    /\ notes' = <<>>
    /\ IF url = "missing" \/ user = "missing"
       THEN /\ response' = MissingFields
            /\ result' = NoResult
            /\ err' = "none"
            /\ fpc' = "responded"
       ELSE IF ~LocatorAccepted(url)
       THEN \* print(...); return []  -- and the caller converts the list
            /\ result' = EmptyOnError
            /\ response' = Success(result'.issues)
            /\ err' = "locator"
            /\ fpc' = "responded"
       ELSE IF url = "unicode_digits"
       THEN \* int(project_url) raises ValueError outside the try block
            /\ response' = ServerError
            /\ result' = [kind |-> "raise", issues |-> <<>>, comments |-> <<>>]
            /\ err' = "none"
            /\ fpc' = "responded"
       ELSE /\ response' = NoResponse
            /\ result' = NoResult
            /\ err' = "none"
            /\ fpc' = "connect"

\* A request arrives: fetch_issues_logic reads and checks its fields, then
\* calls fetch_issues_by_username, with no client (app.py:72-78).
Request(url, user, ao, auo) == Begin(url, user, ao, auo, NoLlm)

\* fetch_issues_by_username called with a username and with llm_client,
\* provider and model, as the command line's main does (lines 378-387).
FetchWithLlm(url, ao, auo, client, name, model_) ==
    Begin(url, "given", ao, auo, Llm(client, name, model_))

\* An except clause of fetch_issues_by_username: print, `return []`; then
\* fetch_issues_logic converts the returned list.
Fail(f) ==
    /\ err' = f
    /\ result' = EmptyOnError
    /\ response' = Success(result'.issues)
    /\ fpc' = "responded"

\* gitlab.Gitlab(...) and gl.projects.get(project_path).
Connect ==
    /\ UNCHANGED svars
    /\ UNCHANGED cvars
    /\ fpc = "connect"
    /\ calls' = calls \o <<Call("Gitlab", 0), Call("projects.get", 0)>>
    /\ \/ /\ fpc' = "assignee"
          /\ UNCHANGED <<err, result, response>>
       \/ \E f \in Failures : Fail(f)
    /\ UNCHANGED <<fetch_llm, fsent, project_url, username, assignee_only,
                   author_only,
                   assigned_issues, authored_issues, issues, comments, notes>>

\* if assignee: project.issues.list(assignee_username=...); issues.extend(...)
ListAssigned ==
    /\ UNCHANGED svars
    /\ UNCHANGED cvars
    /\ fpc = "assignee"
    /\ IF FetchAssignee(author_only)
       THEN /\ calls' = Append(calls, Call("issues.list.assignee", 0))
            /\ \/ \E s \in IidSeqs :
                     /\ assigned_issues' = IssueList(s, "assignee")
                     /\ issues' = Extend(issues, assigned_issues')
                     /\ fpc' = "author"
                     /\ UNCHANGED <<err, result, response>>
               \/ \E f \in Failures :
                     /\ Fail(f)
                     /\ UNCHANGED <<assigned_issues, issues>>
       ELSE /\ fpc' = "author"
            /\ UNCHANGED <<calls, assigned_issues, issues, err, result, response>>
    /\ UNCHANGED <<fetch_llm, fsent, project_url, username, assignee_only,
                   author_only,
                   authored_issues, comments, notes>>

\* if author: project.issues.list(author_username=...); the dedup loop.
ListAuthored ==
    /\ UNCHANGED svars
    /\ UNCHANGED cvars
    /\ fpc = "author"
    /\ IF FetchAuthor(assignee_only)
       THEN /\ calls' = Append(calls, Call("issues.list.author", 0))
            /\ \/ \E s \in IidSeqs :
                     /\ authored_issues' = IssueList(s, "author")
                     /\ issues' = AppendAuthored(issues, authored_issues')
                     /\ fpc' = "notes"
                     /\ UNCHANGED <<err, result, response>>
               \/ \E f \in Failures :
                     /\ Fail(f)
                     /\ UNCHANGED <<authored_issues, issues>>
       ELSE /\ fpc' = "notes"
            /\ UNCHANGED <<calls, authored_issues, issues, err, result, response>>
    /\ UNCHANGED <<fetch_llm, fsent, project_url, username, assignee_only,
                   author_only,
                   assigned_issues, comments, notes>>

\* Mutant of NextIssue: the merged list is walked from its end.
NextIssueFromEnd(list, attached) == list[Len(list) - Len(attached)]

\* `for issue in issues`: the issue of the next iteration, when the threads
\* of the issues before it are attached.
NextIssue(list, attached) == list[Len(attached) + 1]

\* One iteration of `for issue in issues`: the thread of the next issue is
\* listed, converted and attached.  Whatever is raised meanwhile, the one
\* except clause turns it into the error marker.
FetchNotes ==
    /\ UNCHANGED svars
    /\ UNCHANGED cvars
    /\ fpc = "notes"
    /\ Len(comments) < Len(issues)
    /\ LET issue == NextIssue(issues, comments) IN
         /\ calls' = Append(calls, Call("notes.list", issue.iid))
         /\ \/ \E bad \in 0..ThreadLen(issue.iid),
                  o \in [1..ThreadLen(issue.iid) -> CommentOutcomes(fetch_llm)] :
                  /\ notes' = Append(notes, [ok |-> TRUE,
                                             thread |-> Thread(issue.iid, bad)])
                  /\ comments' = Append(comments,
                                        ReadNotes(Thread(issue.iid, bad), fetch_llm, o))
                  /\ fsent' = fsent \o SummaryCalls(Thread(issue.iid, bad), fetch_llm, o)
            \/ /\ notes' = Append(notes, [ok |-> FALSE, thread |-> <<>>])
               /\ comments' = Append(comments, ListFailed("Exception"))
               /\ UNCHANGED fsent
    /\ UNCHANGED <<fetch_llm, fpc, project_url, username, assignee_only, author_only,
                   assigned_issues, authored_issues, issues, err, result,
                   response>>

\* `return issues`, and fetch_issues_logic converting the returned list.
Return ==
    /\ UNCHANGED svars
    /\ UNCHANGED cvars
    /\ fpc = "notes"
    /\ Len(comments) = Len(issues)
    /\ result' = [kind |-> "list", issues |-> issues, comments |-> comments]
    /\ response' = Success(result'.issues)
    /\ fpc' = "responded"
    /\ UNCHANGED <<fetch_llm, fsent, project_url, username, assignee_only,
                   author_only, calls, assigned_issues, authored_issues,
                   issues, comments, notes, err>>

FetchNext ==
    \/ \E url \in LocatorKinds, user \in UsernameKinds, ao \in BOOLEAN,
          auo \in BOOLEAN : Request(url, user, ao, auo)
    \/ Connect
    \/ ListAssigned
    \/ ListAuthored
    \/ FetchNotes
    \/ Return

\* ------------------------------------------------- fetch_and_summarize dict
\* fetch_data: the fetch result's keys and the keys summarization adds.
FetchData(fetched, summary, summary_error) ==
    [status |-> fetched.status, success |-> fetched.success,
     error |-> fetched.error, issues |-> fetched.issues, count |-> fetched.count,
     provider |-> summary.provider, model |-> summary.model,
     query |-> summary.query,
     individual_summaries |-> summary.individual_summaries,
     collection_summary |-> summary.collection_summary,
     summary_error |-> summary_error]

CombinedIdle ==
    /\ cpc = "none"
    /\ fetch_data = FetchData(NoResponse, NoSResponse, "None")

SummarizeInit ==
    /\ environ \in [GROQ_API_KEY : BOOLEAN, OPENAI_API_KEY : BOOLEAN]
    /\ _llm_client = None
    /\ _llm_provider = NoProvider
    /\ spc = [t \in Threads |-> "idle"]
    /\ provider = [t \in Threads |-> "groq"]
    /\ issues_data = [t \in Threads |-> <<>>]
    /\ query = [t \in Threads |-> ""]
    /\ summary_type = [t \in Threads |-> "collection"]
    /\ model = [t \in Threads |-> "None"]
    /\ got = [t \in Threads |-> <<None, NoProvider>>]
    /\ llm_client = [t \in Threads |-> None]
    /\ current_provider = [t \in Threads |-> NoProvider]
    /\ sent = [t \in Threads |-> <<>>]
    /\ sresponse = [t \in Threads |-> NoSResponse]

\* summarize_logic is entered by thread t: lines 124-130.
Enter(t, name, list, q, type, model_) ==
    /\ provider' = [provider EXCEPT ![t] = name]
    /\ issues_data' = [issues_data EXCEPT ![t] = list]
    /\ query' = [query EXCEPT ![t] = q]
    /\ summary_type' = [summary_type EXCEPT ![t] = type]
    /\ model' = [model EXCEPT ![t] = model_]
    /\ got' = [got EXCEPT ![t] = <<None, NoProvider>>]
    /\ llm_client' = [llm_client EXCEPT ![t] = None]
    /\ current_provider' = [current_provider EXCEPT ![t] = NoProvider]
    /\ sent' = [sent EXCEPT ![t] = <<>>]
    /\ IF list # <<>>
       THEN /\ spc' = [spc EXCEPT ![t] = "get"]
            /\ sresponse' = [sresponse EXCEPT ![t] = NoSResponse]
       ELSE /\ spc' = [spc EXCEPT ![t] = "done"]
            /\ sresponse' = [sresponse EXCEPT ![t] = NoIssues]
    /\ UNCHANGED <<environ, _llm_client, _llm_provider>>

\* A summarize request reaches thread t.
SummarizeRequest(t, name, list, q, type, model_) ==
    /\ UNCHANGED fvars
    /\ UNCHANGED cvars
    /\ spc[t] = "idle"
    /\ Enter(t, name, list, q, type, model_)

\* get_llm_client, line 28: the test of the cached client.
CheckCache(t) ==
    /\ UNCHANGED fvars
    /\ UNCHANGED cvars
    /\ spc[t] = "get"
    /\ spc' = [spc EXCEPT ![t] = IF _llm_client = None THEN "setup" ELSE "return"]
    /\ UNCHANGED <<environ, _llm_client, _llm_provider, provider, issues_data,
                   query, summary_type, model, got, llm_client,
                   current_provider, sent, sresponse>>

\* Mutant of PreferredProvider: OpenAI tried first.
PreferredProviderOpenAIFirst ==
    IF environ.OPENAI_API_KEY THEN "openai"
    ELSE IF environ.GROQ_API_KEY THEN "groq"
    ELSE NoProvider

\* get_llm_client, lines 30-38: the provider whose client is constructed:
\* Groq if its key is set, else OpenAI if its key is set, else none.
PreferredProvider ==
    IF environ.GROQ_API_KEY THEN "groq"
    ELSE IF environ.OPENAI_API_KEY THEN "openai"
    ELSE NoProvider

\* Mutant of SetupCache: when the Groq client cannot be constructed and the
\* OpenAI key is set, the OpenAI client is constructed and cached.
SetupCacheFallingBack(t) ==
    /\ UNCHANGED fvars
    /\ UNCHANGED cvars
    /\ spc[t] = "setup"
    /\ IF PreferredProvider # NoProvider
       THEN \E built \in BOOLEAN :
               LET pair == setup_llm_client(PreferredProvider,
                                            KeyFor(PreferredProvider), built)
                   next == IF pair[1] = None /\ PreferredProvider = "groq"
                              /\ environ.OPENAI_API_KEY
                           THEN setup_llm_client("openai", KeyFor("openai"), TRUE)
                           ELSE pair
               IN  /\ _llm_client' = next[1]
                   /\ _llm_provider' = next[2]
                   /\ spc' = [spc EXCEPT ![t] = "return"]
                   /\ UNCHANGED <<got, sresponse>>
       ELSE /\ got' = [got EXCEPT ![t] = <<None, NoProvider>>]
            /\ sresponse' = [sresponse EXCEPT ![t] = Unavailable]
            /\ spc' = [spc EXCEPT ![t] = "done"]
            /\ UNCHANGED <<_llm_client, _llm_provider>>
    /\ UNCHANGED <<environ, provider, issues_data, query, summary_type, model,
                   llm_client, current_provider, sent>>

\* get_llm_client, lines 30-38, with an empty cache: the preferred provider's
\* client is set up and cached; with neither key it returns (None, None),
\* which summarize_logic reports as unavailable.
SetupCache(t) ==
    /\ UNCHANGED fvars
    /\ UNCHANGED cvars
    /\ spc[t] = "setup"
    /\ IF PreferredProvider # NoProvider
       THEN \E built \in BOOLEAN :
               LET pair == setup_llm_client(PreferredProvider,
                                            KeyFor(PreferredProvider), built)
               IN  /\ _llm_client' = pair[1]
                   /\ _llm_provider' = pair[2]
                   /\ spc' = [spc EXCEPT ![t] = "return"]
                   /\ UNCHANGED <<got, sresponse>>
       ELSE /\ got' = [got EXCEPT ![t] = <<None, NoProvider>>]
            /\ sresponse' = [sresponse EXCEPT ![t] = Unavailable]
            /\ spc' = [spc EXCEPT ![t] = "done"]
            /\ UNCHANGED <<_llm_client, _llm_provider>>
    /\ UNCHANGED <<environ, provider, issues_data, query, summary_type, model,
                   llm_client, current_provider, sent>>

\* Mutant of Resolve: the client of a provider switch is stored in the
\* process-wide cache as well.
ResolveSwitchingCache(t) ==
    /\ UNCHANGED fvars
    /\ UNCHANGED cvars
    /\ spc[t] = "return"
    /\ got' = [got EXCEPT ![t] = <<_llm_client, _llm_provider>>]
    /\ IF _llm_client = None
       THEN /\ sresponse' = [sresponse EXCEPT ![t] = Unavailable]
            /\ spc' = [spc EXCEPT ![t] = "done"]
            /\ UNCHANGED <<llm_client, current_provider, _llm_client, _llm_provider>>
       ELSE IF provider[t] = NullProvider /\ KeyFor(provider[t]) # ""
       THEN /\ sresponse' = [sresponse EXCEPT ![t] = Raised]
            /\ spc' = [spc EXCEPT ![t] = "done"]
            /\ UNCHANGED <<llm_client, current_provider, _llm_client, _llm_provider>>
       ELSE \E built \in BOOLEAN :
               LET pair == Reresolve(got'[t], provider[t], built) IN
               /\ llm_client' = [llm_client EXCEPT ![t] = pair[1]]
               /\ current_provider' = [current_provider EXCEPT ![t] = pair[2]]
               /\ _llm_client' = pair[1]
               /\ _llm_provider' = pair[2]
               /\ spc' = [spc EXCEPT ![t] = "call"]
               /\ UNCHANGED sresponse
    /\ UNCHANGED <<environ, provider, issues_data, query, summary_type, model,
                   sent>>

\* get_llm_client, line 40, returns the cached pair; summarize_logic tests
\* the client (133-134) and re-resolves for the requested provider (136-139).
\* A null provider name with an OpenAI key reaches setup_llm_client, whose
\* provider.lower() raises.
Resolve(t) ==
    /\ UNCHANGED fvars
    /\ UNCHANGED cvars
    /\ spc[t] = "return"
    /\ got' = [got EXCEPT ![t] = <<_llm_client, _llm_provider>>]
    /\ IF _llm_client = None
       THEN /\ sresponse' = [sresponse EXCEPT ![t] = Unavailable]
            /\ spc' = [spc EXCEPT ![t] = "done"]
            /\ UNCHANGED <<llm_client, current_provider>>
       ELSE IF provider[t] = NullProvider /\ KeyFor(provider[t]) # ""
       THEN /\ sresponse' = [sresponse EXCEPT ![t] = Raised]
            /\ spc' = [spc EXCEPT ![t] = "done"]
            /\ UNCHANGED <<llm_client, current_provider>>
       ELSE \E built \in BOOLEAN :
               LET pair == Reresolve(got'[t], provider[t], built) IN
               /\ llm_client' = [llm_client EXCEPT ![t] = pair[1]]
               /\ current_provider' = [current_provider EXCEPT ![t] = pair[2]]
               /\ spc' = [spc EXCEPT ![t] = "call"]
               /\ UNCHANGED sresponse
    /\ UNCHANGED <<environ, _llm_client, _llm_provider, provider, issues_data,
                   query, summary_type, model, sent>>

\* Lines 140-204: the summaries are generated, each completion call ending in
\* one of the given outcomes.
Summarize(t, outcomes) ==
    /\ UNCHANGED fvars
    /\ UNCHANGED cvars
    /\ spc[t] = "call"
    /\ \E o \in [1..NCalls(issues_data[t], summary_type[t]) -> outcomes] :
          LET r == summarize_results(issues_data[t], query[t], summary_type[t],
                                     model[t], llm_client[t],
                                     current_provider[t], o)
          IN  /\ sresponse' = [sresponse EXCEPT ![t] = r.response]
              /\ sent' = [sent EXCEPT ![t] = r.sent]
    /\ spc' = [spc EXCEPT ![t] = "done"]
    /\ UNCHANGED <<environ, _llm_client, _llm_provider, provider, issues_data,
                   query, summary_type, model, got, llm_client,
                   current_provider>>

\* The summarize endpoint returns the (dict, status) to the caller
\* (app.py:213-214); the request's locals are gone, thread t is free.
Reply(t) ==
    /\ UNCHANGED fvars
    /\ UNCHANGED cvars
    /\ spc[t] = "done"
    /\ spc' = [spc EXCEPT ![t] = "idle"]
    /\ provider' = [provider EXCEPT ![t] = "groq"]
    /\ issues_data' = [issues_data EXCEPT ![t] = <<>>]
    /\ query' = [query EXCEPT ![t] = ""]
    /\ summary_type' = [summary_type EXCEPT ![t] = "collection"]
    /\ model' = [model EXCEPT ![t] = "None"]
    /\ got' = [got EXCEPT ![t] = <<None, NoProvider>>]
    /\ llm_client' = [llm_client EXCEPT ![t] = None]
    /\ current_provider' = [current_provider EXCEPT ![t] = NoProvider]
    /\ sent' = [sent EXCEPT ![t] = <<>>]
    /\ sresponse' = [sresponse EXCEPT ![t] = NoSResponse]
    /\ UNCHANGED <<environ, _llm_client, _llm_provider>>

\* ---------------------------------------------------- fetch_and_summarize
\* The handler runs fetch_issues_logic (the fetch steps above), then:
\* lines 227-238.  A failed fetch is returned as it is; otherwise, if
\* summarization is asked for and there are issues, summarize_logic is
\* entered with the fetched issue dicts.
AfterFetch(summarize, name, q, type, model_) ==
    /\ cpc = "fetch"
    /\ fpc = "responded"
    /\ UNCHANGED fvars
    /\ fetch_data' = FetchData(response, NoSResponse, "None")
    /\ IF response.status # 200 \/ ~response.success
       THEN /\ cpc' = "done"
            /\ UNCHANGED svars
       ELSE IF summarize /\ response.issues # <<>>
       THEN /\ cpc' = "summarize"
            /\ Enter(1, name, response.issues, q, type, model_)
       ELSE /\ cpc' = "done"
            /\ UNCHANGED svars

\* Lines 239-245: the summary's keys are added when summarize_logic returned
\* status 200; an exception leaves its text under summary_error.
Finish ==
    /\ cpc = "summarize"
    /\ spc[1] = "done"
    /\ UNCHANGED fvars
    /\ UNCHANGED svars
    /\ cpc' = "done"
    /\ fetch_data' =
          IF sresponse[1].status = 200
          THEN FetchData(response, sresponse[1], "None")
          ELSE IF sresponse[1] = Raised
          THEN FetchData(response, NoSResponse, "exception")
          ELSE fetch_data

\* ------------------------------------------------------------ request inputs
SummaryTypes == {"collection", "individual"}
Models == {"None", "custom-model"}

\* A list of n issue dicts whose k-th author is the k-th of `authors`.
IssuesWith(authors) ==
    [k \in 1..Len(authors) |-> IssueDict(k, <<>>, authors[k])]

\* The lists summarized issue by issue: up to MaxIssues issues, each with a
\* well-formed or a malformed author value.
SmallIssueLists ==
    { IssuesWith(a) : a \in UNION { [1..n -> {WellFormedAuthor, MalformedAuthor}] :
                                      n \in 0..MaxIssues } }

\* Description lengths around the preview cap.
DescriptionLengths == <<0, 1, PreviewCap, PreviewCap + MaxOver>>

\* The lists rendered into overviews: up to OverviewCap + MaxExtra issues,
\* descriptions of every length of DescriptionLengths at every position.
LongIssueLists ==
    { [k \in 1..n |->
          IssueDict(k, Chars(DescriptionLengths[((k + shift) % 4) + 1]),
                    WellFormedAuthor)] :
        n \in 0..(OverviewCap + MaxExtra), shift \in 0..3 }

\* An issue dict that carries its thread under 'comments', as a caller of
\* the summarize endpoint may send it.
IssueDictWithComments(iid, description, author, thread) ==
    [iid |-> iid, title |-> "title", state |-> "opened", created_at |-> "t0",
     description |-> description, author |-> author, comments |-> thread]

\* Threads of such issue dicts: none, a complete thread of MaxNotes
\* comments, a thread that is only the error marker of a failed fetch, and
\* one comment with an empty body.
ThreadsOfRequest ==
    { <<>>,
      [k \in 1..MaxNotes |-> Comment(Note(1, k, FALSE))],
      ListFailed("Exception"),
      <<[Comment(Note(1, 1, FALSE)) EXCEPT !.body = ""]>> }

\* Lists of one to MaxIssues issue dicts, each with a thread and with or
\* without a description.
ThreadedIssueLists ==
    UNION { [1..n -> { IssueDictWithComments(1, d, WellFormedAuthor, thread) :
                          d \in {<<>>, Chars(1)}, thread \in ThreadsOfRequest }] :
              n \in 1..MaxIssues }

SummarizeNext ==
    \E t \in Threads :
        \/ \E name \in ProviderNames, list \in {<<>>, IssuesWith(<<WellFormedAuthor>>)} :
              SummarizeRequest(t, name, list, "", "collection", "None")
        \/ CheckCache(t)
        \/ SetupCache(t)
        \/ Resolve(t)
        \/ Summarize(t, {"text", "raises"})
        \/ Reply(t)

\* Summarize requests served one after another by one thread.
SequentialNext ==
    \/ \E name \in ProviderNames \cup {NullProvider}, list \in SmallIssueLists,
          q \in Queries, type \in SummaryTypes, model_ \in Models :
          SummarizeRequest(1, name, list, q, type, model_)
    \/ CheckCache(1)
    \/ SetupCache(1)
    \/ Resolve(1)
    \/ Summarize(1, {"text", "raises", "null_content"})
    \/ Reply(1)

\* Collection and query-directed summaries of long lists, one after another.
OverviewNext ==
    \/ \E list \in LongIssueLists, q \in {"", "status?"} :
          SummarizeRequest(1, "groq", list, q, "collection", "None")
    \/ CheckCache(1)
    \/ SetupCache(1)
    \/ Resolve(1)
    \/ Summarize(1, Outcomes)
    \/ Reply(1)

\* One fetch-and-summarize request.
CombinedNext ==
    \/ FetchNext
    \/ \E summarize \in BOOLEAN, name \in {"groq", "openai", NullProvider} :
          AfterFetch(summarize, name, "", "collection", "None")
    \/ CheckCache(1)
    \/ SetupCache(1)
    \/ Resolve(1)
    \/ Summarize(1, {"text", "raises"})
    \/ Finish

\* A server without provider credentials that serves one request at a time:
\* summarize requests, then a fetch request.  Without a credential the
\* summarize steps behind SetupCache are never reached.
FetchOnlyModeNext ==
    \/ /\ fpc = "idle"
       /\ \E name \in ProviderNames, list \in SmallIssueLists, q \in Queries,
             type \in SummaryTypes :
             SummarizeRequest(1, name, list, q, type, "None")
    \/ CheckCache(1)
    \/ SetupCache(1)
    \/ Reply(1)
    \/ /\ spc[1] = "idle"
       /\ \E url \in LocatorKinds, user \in UsernameKinds, ao \in BOOLEAN,
             auo \in BOOLEAN : Request(url, user, ao, auo)
    \/ Connect
    \/ ListAssigned
    \/ ListAuthored
    \/ FetchNotes
    \/ Return

\* Individual summaries of issues that carry their threads.
ThreadsNext ==
    \/ \E list \in ThreadedIssueLists :
          SummarizeRequest(1, "groq", list, "", "individual", "None")
    \/ CheckCache(1)
    \/ SetupCache(1)
    \/ Resolve(1)
    \/ Summarize(1, {"text"})
    \/ Reply(1)

\* Fetches of the issues assigned to a user, by a caller that passes
\* llm_client, provider and model, each given or left at its default.
CommentsNext ==
    \/ \E url \in {"valid", "other"},
          client \in {None, Client("groq", "GROQ_API_KEY")},
          name \in {NoProvider, "groq"}, model_ \in Models :
          FetchWithLlm(url, TRUE, FALSE, client, name, model_)
    \/ Connect
    \/ ListAssigned
    \/ ListAuthored
    \/ FetchNotes
    \/ Return

\* Every kind of completion call: the server's summarize requests, served
\* one after another (individual, collection and query-directed prompts),
\* and the command line's fetch of a user's assigned issues, which passes
\* llm_client, provider and model (comment prompts) and runs where
\* get_llm_client has cached nothing.
CallsNext ==
    \/ /\ fpc = "idle"
       /\ \E name \in {"groq", "openai", "GROQ"},
             list \in {IssuesWith(<<WellFormedAuthor>>)}, q \in {"", "status?"},
             type \in SummaryTypes, model_ \in Models :
             SummarizeRequest(1, name, list, q, type, model_)
    \/ CheckCache(1)
    \/ SetupCache(1)
    \/ Resolve(1)
    \/ Summarize(1, {"text", "raises"})
    \/ Reply(1)
    \/ /\ spc[1] = "idle"
       /\ _llm_client = None
       /\ _llm_provider = NoProvider
       /\ \E name \in {"groq", "openai"}, model_ \in Models :
             FetchWithLlm("valid", TRUE, FALSE, Client("groq", "GROQ_API_KEY"),
                          name, model_)
    \/ Connect
    \/ ListAssigned
    \/ ListAuthored
    \/ FetchNotes
    \/ Return

\* A relation query's answer that lists each issue once, by ascending iid.
Ascending(list) ==
    \A i, j \in 1..Len(list) : i < j => list[i].iid < list[j].iid

\* Fetches of well-formed requests, for both relations or for one, from a
\* tracker whose answers list each issue once, by ascending iid.
OrderNext ==
    \/ \E ao \in BOOLEAN, auo \in BOOLEAN : Request("valid", "given", ao, auo)
    \/ Connect
    \/ ListAssigned /\ Ascending(assigned_issues')
    \/ ListAuthored /\ Ascending(authored_issues')
    \/ FetchNotes
    \/ Return

\* ------------------------------------------------------------ specifications
\* One fetch request, against any tracker behaviour, in a process without
\* provider credentials (fetch-only mode).
Init ==
    /\ FetchInit
    /\ SummarizeInit
    /\ CombinedIdle
    /\ environ = [GROQ_API_KEY |-> FALSE, OPENAI_API_KEY |-> FALSE]
Spec == Init /\ [][FetchNext]_vars

\* The server's threads handling summarize requests, one after another and
\* interleaved.
InitSummarize == FetchInit /\ SummarizeInit /\ CombinedIdle
SpecSummarize == InitSummarize /\ [][SummarizeNext]_vars

SpecFetchOnlyMode == Init /\ [][FetchOnlyModeNext]_vars

SpecSequential == InitSummarize /\ [][SequentialNext]_vars

SpecOverview == InitSummarize /\ [][OverviewNext]_vars

\* The same server, whose threads are scheduled as long as they have a step.
SpecSummarizeFair == SpecSummarize /\ WF_vars(SummarizeNext)

SpecThreads == InitSummarize /\ [][ThreadsNext]_vars

SpecComments == Init /\ [][CommentsNext]_vars

SpecCalls == InitSummarize /\ [][CallsNext]_vars

SpecOrder == Init /\ [][OrderNext]_vars

InitCombined ==
    /\ FetchInit
    /\ SummarizeInit
    /\ cpc = "fetch"
    /\ fetch_data = FetchData(NoResponse, NoSResponse, "None")
SpecCombined == InitCombined /\ [][CombinedNext]_vars

\* ----------------------------------------------------------------- claims
Range(s) == { s[k] : k \in 1..Len(s) }
IidsOf(s) == { s[k].iid : k \in 1..Len(s) }
Count(s, iid) == Cardinality({ k \in 1..Len(s) : s[k].iid = iid })

\* The fetch ran to its `return issues`.
FetchSucceeded == fpc = "responded" /\ err = "none" /\ result.kind = "list"
\* Both relation queries (as far as enabled) have answered and the merge is done.
MergeDone == fpc = "notes" \/ FetchSucceeded

\* The merge as the specification words it: start from the assignee-relation
\* sequence, then take the author-relation issues in order, appending each
\* one whose iid is not already present in the sequence built so far.
RECURSIVE StableUnion(_, _)
StableUnion(out, rest) ==
    IF rest = <<>> THEN out
    ELSE StableUnion(IF Head(rest).iid \in IidsOf(out) THEN out
                     ELSE Append(out, Head(rest)),
                     Tail(rest))

\* C1: with both relations enabled, the merged sequence is the assignee
\* sequence verbatim followed by each author issue whose iid is not already
\* present, in the order the author query returned them.
C1_MergeIsStableUnion ==
    (MergeDone /\ FetchAssignee(author_only) /\ FetchAuthor(assignee_only))
        => issues = StableUnion(assigned_issues, authored_issues)

\* C2: whatever the two queries return and whatever the filters, the list the
\* fetch returns never holds two issues with the same iid.
C2_NoDuplicateIid ==
    fpc = "responded"
        => \A j, k \in 1..Len(result.issues) :
              j # k => result.issues[j].iid # result.issues[k].iid

\* C3: when the fetch succeeds, every iid of an enabled relation's result set
\* occurs in the returned list and in the response; an issue is left out only
\* when an issue with the same iid is in the output.
C3_NoSilentDrop ==
    FetchSucceeded =>
        /\ IidsOf(assigned_issues) \subseteq IidsOf(result.issues)
        /\ IidsOf(authored_issues) \subseteq IidsOf(result.issues)
        /\ IidsOf(assigned_issues) \cup IidsOf(authored_issues)
               \subseteq IidsOf(response.issues)
        /\ \A x \in Range(assigned_issues) \cup Range(authored_issues) :
              x \notin Range(result.issues)
                  => \E y \in Range(result.issues) : y.iid = x.iid /\ y # x

\* C3 witness: a successful fetch of both relations in which one authored
\* issue was dropped as a duplicate and another one was appended.
C3_Witness ==
    /\ FetchSucceeded
    /\ assigned_issues # <<>>
    /\ \E x \in Range(authored_issues) : x \notin Range(result.issues)
    /\ \E x \in Range(authored_issues) : x \in Range(result.issues)

\* C4: an iid occurring in both result sets is represented in the output by
\* exactly one issue, the assignee-relation object; an iid occurring only in
\* the author-relation set by exactly one issue, from the author relation.
C4_OnePerIid ==
    FetchSucceeded =>
        \A i \in IIDs :
            /\ (i \in IidsOf(assigned_issues) /\ i \in IidsOf(authored_issues))
                  => /\ Count(result.issues, i) = 1
                     /\ \A x \in Range(result.issues) :
                           x.iid = i => x.rel = "assignee"
            /\ (i \notin IidsOf(assigned_issues) /\ i \in IidsOf(authored_issues))
                  => /\ Count(result.issues, i) = 1
                     /\ \A x \in Range(result.issues) :
                           x.iid = i => x.rel = "author"

\* Every reordering of a sequence.
Reorderings(s) ==
    { [k \in 1..Len(s) |-> s[f[k]]] :
        f \in { g \in [1..Len(s) -> 1..Len(s)] :
                  \A a, b \in 1..Len(s) : a # b => g[a] # g[b] } }

Tail_(s, n) == SubSeq(s, n + 1, Len(s))

\* The merge has just been completed; no thread has been fetched yet.
JustMerged == fpc = "notes" /\ comments = <<>>

\* C5: for the assignee sequence as returned, merging any permutation of the
\* author sequence gives the same set of iids and the same assignee prefix;
\* the appended tail holds the same issues, possibly in another order.  The
\* merged list is what a successful fetch returns.
C5_AuthorOrderIrrelevant ==
    /\ FetchSucceeded => result.issues = issues
    /\ (JustMerged /\ FetchAuthor(assignee_only)) =>
          \A p \in Reorderings(authored_issues) :
              LET n == Len(assigned_issues)
                  other == AppendAuthored(Extend(<<>>, assigned_issues), p)
              IN  /\ IidsOf(other) = IidsOf(issues)
                  /\ SubSeq(other, 1, n) = assigned_issues
                  /\ SubSeq(issues, 1, n) = assigned_issues
                  /\ Len(other) = Len(issues)
                  /\ Range(Tail_(other, n)) = Range(Tail_(issues, n))

\* C5 witness: a merge behind a non-empty assignee sequence whose author
\* sequence has a permutation that changes the order of the appended tail.
C5_Witness ==
    /\ JustMerged
    /\ FetchAuthor(assignee_only)
    /\ assigned_issues # <<>>
    /\ \E p \in Reorderings(authored_issues) :
          AppendAuthored(Extend(<<>>, assigned_issues), p) # issues

\* C6: when a tracker call of the fetch fails, fetch_issues_by_username and
\* fetch_issues_logic return an explicit failure, never what a successful
\* fetch of zero issues returns (an empty list; success with no issues).
C6_UpstreamErrorIsExplicit ==
    (fpc = "responded" /\ err \in Failures) =>
        /\ ~(result.kind = "list" /\ result.issues = <<>>)
        /\ ~(response.success /\ response.issues = <<>>)

\* C7: a locator that is neither a gitlab.com URL nor an all-digit string
\* makes the fetch report a validation failure, with no tracker call made.
C7_BadLocatorIsValidationFailure ==
    (fpc = "responded" /\ project_url = "other") =>
        /\ ~response.success
        /\ calls = <<>>

RelationQueries == { Call("issues.list.assignee", 0), Call("issues.list.author", 0) }

\* C8: with both relation filters disabled and a valid locator, neither
\* relation query is ever issued, and the fetch returns an empty collection
\* and reports success.
C8_BothFiltersOffIsEmptySuccess ==
    (assignee_only /\ author_only /\ project_url = "valid" /\ username = "given") =>
        /\ Range(calls) \cap RelationQueries = {}
        /\ fpc = "responded" =>
              /\ result.kind = "list"
              /\ result.issues = <<>>
              /\ response.success
              /\ response.status = 200
              /\ response.issues = <<>>
              /\ response.count = 0

\* C8 witness: such a request answered after the project lookup succeeded.
C8_Witness ==
    /\ assignee_only /\ author_only /\ project_url = "valid"
    /\ FetchSucceeded
    /\ Call("projects.get", 0) \in Range(calls)

\* The thread a caller finds on an issue of the response, read the way the UI
\* reads it: issue.get('comments', []).
CommentsOf(issue_data) ==
    IF "comments" \in DOMAIN issue_data THEN issue_data.comments ELSE <<>>

\* The thread fetch of issues[k] failed: listing raised, or a note did.
ThreadFailed(k) ==
    \/ ~notes[k].ok
    \/ \E n \in Range(notes[k].thread) : n.author = NoAuthor

\* The complete thread of issues[k], as attached when nothing fails.
CompleteThread(k) == [j \in 1..Len(notes[k].thread) |-> Comment(notes[k].thread[j])]

IsErrorMarker(c) == c.kind = "error"

\* C9: when the thread fetch of one merged issue fails, the fetch result
\* still holds every merged issue with its other fields; the failing issue
\* carries an error marker, every other issue its complete thread.
C9_ThreadFailureIsLocal ==
    (FetchSucceeded /\ \E k \in 1..Len(issues) : ThreadFailed(k)) =>
        /\ Len(result.issues) = Len(issues)
        /\ Len(response.issues) = Len(issues)
        /\ \A k \in 1..Len(issues) :
              /\ result.issues[k] = issues[k]
              /\ response.issues[k].iid = issues[k].iid
              /\ response.issues[k].id = issues[k].id
              /\ IF ThreadFailed(k)
                 THEN /\ result.comments[k] # <<>>
                      /\ IsErrorMarker(result.comments[k][Len(result.comments[k])])
                      /\ CommentsOf(response.issues[k]) # <<>>
                      /\ IsErrorMarker(CommentsOf(response.issues[k])
                                          [Len(CommentsOf(response.issues[k]))])
                 ELSE /\ result.comments[k] = CompleteThread(k)
                      /\ CommentsOf(response.issues[k]) = CompleteThread(k)

\* Thread t's request has passed lines 132-139 with a client from the cache.
Resolved(t) ==
    \/ spc[t] = "call"
    \/ spc[t] = "done" /\ sresponse[t].status = 200

\* A credential for the provider a request names: GROQ_API_KEY for groq,
\* OPENAI_API_KEY for openai, none for any other name.
CredentialFor(name) ==
    IF name = "groq" THEN environ.GROQ_API_KEY
    ELSE IF name = "openai" THEN environ.OPENAI_API_KEY
    ELSE FALSE

\* C10: when the requested provider differs from the cached one, the request
\* uses either a newly constructed client of the requested provider (only if
\* its credential exists) or else the cached client with the cached provider
\* identity; the client in use is never null.
C10_SwitchOrKeepCached ==
    \A t \in Threads :
        (Resolved(t) /\ provider[t] # got[t][2]) =>
            /\ llm_client[t] # None
            /\ \/ /\ CredentialFor(provider[t])
                  /\ llm_client[t].prov = provider[t]
                  /\ current_provider[t] = provider[t]
               \/ /\ llm_client[t] = got[t][1]
                  /\ current_provider[t] = got[t][2]
            /\ ~CredentialFor(provider[t]) =>
                  /\ llm_client[t] = got[t][1]
                  /\ current_provider[t] = got[t][2]

\* The step of get_llm_client that found the cache empty (line 28) and went
\* through lines 30-38.
CacheWasEmpty == spc[1] = "setup" /\ spc'[1] # "setup"
\* The step in which get_llm_client returns the cached pair (line 40) and
\* summarize_logic tests it.
Returned == spc[1] = "return" /\ spc'[1] # "return"

\* C11: with an empty cache, get_llm_client resolves by credential presence:
\* with the Groq credential it gives the Groq client; without it and with
\* the OpenAI credential, the OpenAI client; with neither, (None, None),
\* which summarize_logic reports as unavailable.
C11_ResolvesByCredential ==
    [][/\ CacheWasEmpty =>
            /\ environ.GROQ_API_KEY =>
                  <<_llm_client', _llm_provider'>>
                      = <<Client("groq", "GROQ_API_KEY"), "groq">>
            /\ (~environ.GROQ_API_KEY /\ environ.OPENAI_API_KEY) =>
                  <<_llm_client', _llm_provider'>>
                      = <<Client("openai", "OPENAI_API_KEY"), "openai">>
            /\ (~environ.GROQ_API_KEY /\ ~environ.OPENAI_API_KEY) =>
                  /\ got'[1] = <<None, NoProvider>>
                  /\ sresponse'[1] = Unavailable
       /\ Returned => got'[1] = <<_llm_client, _llm_provider>>]_vars

\* C11 (amended): with an empty cache, get_llm_client chooses by credential
\* presence whose client it constructs: Groq's with the Groq credential,
\* else OpenAI's with the OpenAI credential.  It returns that client, or a
\* null client under the chosen provider's name when the construction
\* fails; with neither credential it returns (None, None).  summarize_logic
\* reports every null client as unavailable.
C11_ResolvesByCredentialIfBuilt ==
    [][/\ CacheWasEmpty =>
            /\ environ.GROQ_API_KEY =>
                  <<_llm_client', _llm_provider'>>
                      \in { <<Client("groq", "GROQ_API_KEY"), "groq">>,
                            <<None, "groq">> }
            /\ (~environ.GROQ_API_KEY /\ environ.OPENAI_API_KEY) =>
                  <<_llm_client', _llm_provider'>>
                      \in { <<Client("openai", "OPENAI_API_KEY"), "openai">>,
                            <<None, "openai">> }
            /\ (~environ.GROQ_API_KEY /\ ~environ.OPENAI_API_KEY) =>
                  /\ got'[1] = <<None, NoProvider>>
                  /\ sresponse'[1] = Unavailable
       /\ Returned =>
            /\ got'[1] = <<_llm_client, _llm_provider>>
            /\ got'[1][1] = None =>
                  (sresponse'[1] = Unavailable /\ spc'[1] = "done")]_vars

\* C11 witness: the cache was empty, only the OpenAI credential is set, and
\* get_llm_client has cached the OpenAI client it is about to return.
C11_Witness ==
    /\ spc[1] = "return"
    /\ ~environ.GROQ_API_KEY
    /\ environ.OPENAI_API_KEY
    /\ _llm_client = Client("openai", "OPENAI_API_KEY")
    /\ _llm_provider = "openai"

NoCredential == ~environ.GROQ_API_KEY /\ ~environ.OPENAI_API_KEY

\* What summarize_logic returns for thread 1's request when a constructed
\* client is in use and every completion call fails.
FailedCompletionResults ==
    { summarize_results(issues_data[1], query[1], summary_type[1], model[1],
                        Client(name, "key"), name, o).response :
        name \in {"groq", "openai"},
        o \in [1..NCalls(issues_data[1], summary_type[1])
                 -> {"raises", "no_choice", "null_content"}] }

\* C12: with no provider credential, a summarize request on a non-empty issue
\* list returns a failure (success false, no summary text) that differs from
\* the result of a failed completion call, and a fetch request in the same
\* configuration still returns its issues with success.
C12_UnavailableIsDistinctAndFetchWorks ==
    NoCredential =>
        /\ (spc[1] = "done" /\ issues_data[1] # <<>>) =>
              /\ ~sresponse[1].success
              /\ sresponse[1].status # 200
              /\ sresponse[1].collection_summary = NoText
              /\ sresponse[1].individual_summaries = <<>>
              /\ sresponse[1] \notin FailedCompletionResults
              /\ \A r \in FailedCompletionResults :
                    r.success => r.status # sresponse[1].status
              /\ sent[1] = <<>>
        /\ FetchSucceeded =>
              /\ response.success
              /\ response.status = 200
              /\ response.count = Len(issues)
              /\ response.issues = [k \in 1..Len(issues) |-> IssueData(issues[k])]

\* C12 witness: without a credential, a summarize request on a non-empty
\* list has been answered as unavailable.
C12_Witness ==
    /\ NoCredential
    /\ spc[1] = "done"
    /\ issues_data[1] # <<>>
    /\ sresponse[1] = Unavailable

\* Thread 1's request has run lines 140-204 (the summaries were generated,
\* or an exception left summarize_logic from there).
Summarized == spc[1] = "done" /\ current_provider[1] # NoProvider

\* The MockIssue objects of thread 1's request.
MockIssues == [k \in 1..Len(issues_data[1]) |-> MockIssue(issues_data[1][k])]

\* The comment dicts fetch_issues_by_username passes to
\* summarize_comment_with_llm: those built from a note that has an author.
ReachingComments ==
    { Comment(Note(iid, k, FALSE)) : iid \in IIDs, k \in 1..MaxNotes }

IsText(x) == x # NoText /\ DOMAIN x = {"text", "cause"}

\* C13: for every issue or comment value that reaches them and every provider
\* behaviour (exception, no choice, empty or null content), the three
\* summarize_*_with_llm functions and the query branch of summarize_logic
\* return a text and let no exception propagate.
C13_SummariesNeverRaise ==
    /\ spc[1] = "call" =>
          \A o \in Outcomes :
              /\ summary_type[1] = "individual" =>
                    \A k \in 1..Len(MockIssues) :
                        LET r == summarize_issue_with_llm(MockIssues[k],
                                     llm_client[1], current_provider[1],
                                     model[1], o)
                        IN  ~r.raised /\ IsText(r.text)
              /\ LET r == IF TakesQueryPath(query[1])
                          THEN QueryDirected(query[1], MockIssues, llm_client[1],
                                             model[1], o)
                          ELSE summarize_issues_collection_with_llm(MockIssues,
                                   llm_client[1], current_provider[1],
                                   model[1], o)
                 IN  ~r.raised /\ IsText(r.text)
    /\ \A c \in ReachingComments, o \in Outcomes,
          client \in {None, Client("groq", "GROQ_API_KEY")} :
          LET r == summarize_comment_with_llm(c, client, "groq", "None", o)
          IN  ~r.raised /\ IsText(r.text)
    /\ Summarized =>
          /\ sresponse[1] # Raised
          /\ IsText(sresponse[1].collection_summary)
          /\ \A k \in 1..Len(sresponse[1].individual_summaries) :
                IsText(sresponse[1].individual_summaries[k].summary)

\* C14: in individual-granularity summarization over n issues, whatever
\* subset of the provider calls fails, the result holds exactly n individual
\* summary entries, one per input issue, in input order.
C14_OneSummaryPerIssue ==
    (Summarized /\ summary_type[1] = "individual") =>
        /\ Len(sresponse[1].individual_summaries) = Len(issues_data[1])
        /\ \A k \in 1..Len(issues_data[1]) :
              /\ sresponse[1].individual_summaries[k].issue_id = MockIssues[k].iid
              /\ IsText(sresponse[1].individual_summaries[k].summary)

\* Thread 1's request got its summaries from a constructed client.
SummarizedByClient == Summarized /\ sresponse[1].status = 200 /\ llm_client[1] # None

\* The completion request behind the collection_summary of the result.
CollectionRequest == sent[1][Len(sent[1])]

HasQueryLine(content) == \E k \in 1..Len(content) : content[k].kind = "query"

\* C17: a summarize request whose query is empty, absent or only whitespace
\* takes the standard collection-summary path (200-token budget) and renders
\* no query prefix; only a query with a non-whitespace character takes the
\* query-directed path.
C17_BlankQueryIsNoQuery ==
    SummarizedByClient =>
        /\ sent[1] # <<>>
        /\ IF Strip(query[1]) = ""
           THEN /\ CollectionRequest.shape = "collection"
                /\ CollectionRequest.max_tokens = CollectionTokens
                /\ ~HasQueryLine(CollectionRequest.content)
           ELSE /\ CollectionRequest.shape = "query"
                /\ HasQueryLine(CollectionRequest.content)

\* C19: the provider and model a summarize result names are those of the
\* client that performed the completion calls: no result with success true
\* comes from a null client, and the reported provider is never a requested
\* provider whose client was not constructed.
C19_ReportedProviderRan ==
    (spc[1] = "done" /\ sresponse[1].success) =>
        /\ llm_client[1] # None
        /\ sresponse[1].provider = llm_client[1].prov
        /\ sent[1] # <<>>
        /\ \A k \in 1..Len(sent[1]) :
              /\ sent[1][k].client = llm_client[1]
              /\ sent[1][k].client.prov = sresponse[1].provider
              /\ sent[1][k].model = sresponse[1].model

\* The lines of one kind in a rendered overview, in order.
LinesOf(content, kind) == SelectSeq(content, LAMBDA l : l.kind = kind)

\* Thread 1's request got its collection summary on the standard path.
CollectionSummarized == SummarizedByClient /\ ~TakesQueryPath(query[1])
\* Thread 1's request got its collection summary on the query path.
QuerySummarized == SummarizedByClient /\ TakesQueryPath(query[1])

\* C18: for a collection of any length n, the collection-summary overview
\* has entries for exactly the first min(n, 10) issues, in aggregate order;
\* each description preview is the full description when that has at most
\* 100 characters, otherwise its first 100 characters followed by a
\* 3-character ellipsis; no preview is longer than 103 characters.
C18_OverviewIsCapped ==
    CollectionSummarized =>
        LET content == CollectionRequest.content
            entries == LinesOf(content, "entry")
            previews == LinesOf(content, "description")
            n == Len(MockIssues)
            m == IF n < 10 THEN n ELSE 10
        IN  /\ CollectionRequest.shape = "collection"
            /\ Len(entries) = m
            /\ \A k \in 1..m :
                  /\ entries[k].iid = MockIssues[k].iid
                  /\ entries[k].title = MockIssues[k].title
                  /\ entries[k].state = MockIssues[k].state
            /\ \A j \in 1..Len(previews) :
                  /\ Len(previews[j].text) <= 103
                  /\ \E k \in 1..m :
                        LET d == MockIssues[k].description IN
                        /\ previews[j].iid = MockIssues[k].iid
                        /\ IF Len(d) <= 100
                           THEN previews[j].text = d
                           ELSE /\ Len(previews[j].text) = 103
                                /\ SubSeq(previews[j].text, 1, 100) = SubSeq(d, 1, 100)
                                /\ SubSeq(previews[j].text, 101, 103) = <<Dot, Dot, Dot>>
            /\ \A k \in 1..m :
                  MockIssues[k].description # <<>> =>
                      \E j \in 1..Len(previews) : previews[j].iid = MockIssues[k].iid

\* C18 witness: a collection summary of more than 10 issues; among the first
\* 10 are a description longer than 100 characters and one of exactly 100.
C18_Witness ==
    /\ CollectionSummarized
    /\ Len(MockIssues) > 10
    /\ \E k \in 1..10 : Len(MockIssues[k].description) > 100
    /\ \E k \in 1..10 : Len(MockIssues[k].description) = 100
    /\ \E k \in 11..Len(MockIssues) : MockIssues[k].description # <<>>

\* C20: the query-directed overview is the collection summary's overview
\* (total count, the first 10 entries with their description previews, the
\* remainder count when there are more than 10), prefixed with the literal
\* query text.
C20_QueryOverviewIsCollectionOverview ==
    QuerySummarized =>
        LET content == CollectionRequest.content
            n == Len(MockIssues)
            m == IF n < 10 THEN n ELSE 10
        IN  /\ content # <<>>
            /\ content[1].kind = "query"
            /\ content[1].who = query[1]
            /\ Len(LinesOf(content, "query")) = 1
            /\ LinesOf(content, "total") # <<>>
            /\ LinesOf(content, "total")[1].count = n
            /\ Len(LinesOf(content, "entry")) = m
            /\ \A k \in 1..m :
                  MockIssues[k].description # <<>> =>
                      \E l \in Range(LinesOf(content, "description")) :
                          l.iid = MockIssues[k].iid
            /\ n > 10 =>
                  /\ LinesOf(content, "more") # <<>>
                  /\ LinesOf(content, "more")[1].count = n - 10

\* C20 (amended): the query-directed overview is the literal query text
\* followed by the one-line identifier/title/state entries of the first
\* min(n, 10) issues, in aggregate order, and nothing else: no total count,
\* no description preview, no remainder count.
C20_QueryOverviewIsQueryAndEntries ==
    QuerySummarized =>
        LET content == CollectionRequest.content
            n == Len(MockIssues)
            m == IF n < 10 THEN n ELSE 10
        IN  /\ CollectionRequest.shape = "query"
            /\ Len(content) = m + 1
            /\ content[1].kind = "query"
            /\ content[1].who = query[1]
            /\ \A k \in 1..m :
                  /\ content[k + 1].kind = "entry"
                  /\ content[k + 1].iid = MockIssues[k].iid
                  /\ content[k + 1].title = MockIssues[k].title
                  /\ content[k + 1].state = MockIssues[k].state

\* C20 witness: a query-directed summary of more than 10 issues, some of the
\* first 10 with a description.
C20_Witness ==
    /\ QuerySummarized
    /\ query[1] = "status?"
    /\ Len(MockIssues) > 10
    /\ \E k \in 1..10 : MockIssues[k].description # <<>>

\* The fetch step of the combined operation failed: a required field was
\* missing, the locator was rejected, or a tracker call failed.
FetchFailed ==
    /\ fpc = "responded"
    /\ \/ ~response.success
       \/ err \in Failures
       \/ err = "locator"

\* summarize_logic was entered by the combined operation.
SummarizationRan == spc[1] # "idle"

\* C15: in the combined fetch-then-summarize operation, whenever the fetch
\* step fails (validation failure or upstream tracker failure), the operation
\* returns that fetch failure and makes no provider resolution or completion
\* call.
C15_FetchFailureShortCircuits ==
    FetchFailed =>
        /\ ~SummarizationRan
        /\ _llm_client = None
        /\ sent[1] = <<>>
        /\ cpc = "done" =>
              /\ ~fetch_data.success
              /\ fetch_data.status # 200
              /\ fetch_data.collection_summary = NoText

\* C16: in the combined operation, when the fetch succeeds with at least one
\* issue and summarization is requested, the response holds the fetched
\* issues unchanged (same list, same count) and also either the
\* summarization output or a summarization-specific error marker, whatever
\* the summarization's outcome.
C16_SummaryOrMarkerAttached ==
    (cpc = "done" /\ SummarizationRan) =>
        /\ fetch_data.issues = response.issues
        /\ fetch_data.count = response.count
        /\ fetch_data.issues # <<>>
        /\ \/ fetch_data.collection_summary # NoText
           \/ fetch_data.individual_summaries # <<>>
           \/ fetch_data.summary_error # "None"

\* C21: the collection-summary overview states the total issue count n, and
\* has a remainder line exactly when n > 10, whose number is n - 10; for
\* n <= 10 no remainder line is rendered.
C21_RemainderBeyondTen ==
    CollectionSummarized =>
        LET content == CollectionRequest.content
            n == Len(MockIssues)
        IN  /\ Len(LinesOf(content, "total")) = 1
            /\ content[1].kind = "total"
            /\ content[1].count = n
            /\ IF n > 10
               THEN /\ Len(LinesOf(content, "more")) = 1
                    /\ content[Len(content)].kind = "more"
                    /\ content[Len(content)].count = n - 10
               ELSE LinesOf(content, "more") = <<>>

\* C21 witness: a collection summary of more than 11 issues, whose overview
\* ends in a remainder line.
C21_Witness ==
    /\ CollectionSummarized
    /\ Len(MockIssues) > 11
    /\ CollectionRequest.content[Len(CollectionRequest.content)].kind = "more"

\* The thread fetches among the tracker calls made so far, in order.
NotesCalls == SelectSeq(calls, LAMBDA c : c.op = "notes.list")

\* C22: within one fetch the steps are strictly ordered.  The relation
\* queries and the merge are complete before the first thread fetch: no step
\* changes a relation's result or the merged list once a thread was fetched,
\* and no relation query follows a thread fetch.  Threads are fetched and
\* attached one issue at a time in aggregate order: the k-th thread fetch is
\* for the k-th merged issue, starts when exactly the k-1 threads before it
\* are attached, and its thread is attached, behind the unchanged earlier
\* ones, before the next fetch; this holds whether or not an earlier thread
\* fetch failed.
C22_StepsAreOrdered ==
    [][ /\ NotesCalls' # <<>> =>
              /\ issues' = issues
              /\ assigned_issues' = assigned_issues
              /\ authored_issues' = authored_issues
        /\ \A i, j \in 1..Len(calls') :
              (i < j /\ calls'[i].op = "notes.list") => calls'[j].op = "notes.list"
        /\ \A i, j \in 1..Len(calls') :
              (i < j /\ calls'[i].op = "issues.list.author")
                  => calls'[j].op = "notes.list"
        /\ (NotesCalls' # NotesCalls /\ NotesCalls' # <<>>) =>
              LET k == Len(NotesCalls') IN
              /\ NotesCalls' = Append(NotesCalls, Call("notes.list", issues[k].iid))
              /\ k <= Len(issues)
              /\ Len(comments) = k - 1
              /\ comments' # comments
        /\ comments' # comments =>
              /\ Len(comments') = Len(comments) + 1
              /\ SubSeq(comments', 1, Len(comments)) = comments
              /\ Len(NotesCalls') = Len(comments')
        /\ Len(NotesCalls') = Len(comments')
      ]_vars

\* C22 witness: both relation queries answered, the merged list holds issues
\* of both relations, the thread fetch of its first issue failed and the
\* thread of a later issue was fetched and attached all the same.
C22_Witness ==
    /\ fpc = "notes"
    /\ assigned_issues # <<>>
    /\ \E x \in Range(authored_issues) : x \in Range(issues)
    /\ Len(comments) >= 2
    /\ ThreadFailed(1)
    /\ issues[1].iid # issues[2].iid
    /\ ~ThreadFailed(2)
    /\ NotesCalls = <<Call("notes.list", issues[1].iid), Call("notes.list", issues[2].iid)>>

\* Thread t's request has resolved its client and not yet made its
\* completion call.
InFlight(t) == spc[t] = "call"

\* Thread t's request made a completion call with another client than the
\* one it had resolved.
SwitchObserved(t) ==
    /\ spc[t] = "done"
    /\ \E k \in 1..Len(sent[t]) : sent[t][k].client # llm_client[t]

\* C23: two concurrent summarize requests that name different providers can
\* interleave so that one request observes the cached client reference
\* switched by the other between its own resolution and its own completion
\* call: among the requests the server's threads keep serving, some request
\* makes its completion call with a client other than the one it resolved.
C23_SwitchObservedMidFlight ==
    <>(\E t \in Threads : SwitchObserved(t))

\* C23 (amended): concurrent summarize requests that name different
\* providers never switch each other's client.  A request's resolution,
\* provider switch included, leaves the process-wide cached reference as it
\* is; from its resolution to its completion call no step of any request
\* changes the client and provider identity the request holds; and its
\* completion calls are made with that client.
C23_ResolvedClientIsLocal ==
    [][\A t \in Threads :
          /\ (spc[t] = "return" /\ spc'[t] # "return") =>
                /\ _llm_client' = _llm_client
                /\ _llm_provider' = _llm_provider
          /\ InFlight(t) =>
                /\ llm_client'[t] = llm_client[t]
                /\ current_provider'[t] = current_provider[t]
                /\ spc'[t] \in {"call", "done"}
                /\ spc'[t] = "done" =>
                      /\ \A k \in 1..Len(sent'[t]) :
                            sent'[t][k].client = llm_client[t]
                      /\ sresponse'[t].provider = current_provider[t]
      ]_vars

\* C23 witness: two requests in flight at once, thread 1's naming groq and
\* using the cached Groq client, thread 2's naming openai and switched to an
\* OpenAI client of its own; thread 2's call is made, thread 1's resolved
\* client and the cache are what they were.
C23_Witness ==
    /\ InFlight(1)
    /\ provider[1] = "groq"
    /\ llm_client[1] = _llm_client
    /\ llm_client[1].prov = "groq"
    /\ spc[2] = "done"
    /\ provider[2] = "openai"
    /\ sent[2] # <<>>
    /\ sent[2][1].client.prov = "openai"
    /\ sent[2][1].client # _llm_client

\* The provider did not answer a completion call with text: the call raised,
\* or the answer had no choice or no content.
CallFailed(call) == call.outcome \in {"raises", "no_choice", "null_content"}

\* The summary field of thread 1's result that the k-th completion call of
\* its request was made for.
SummaryFieldOf(k) ==
    IF sent[1][k].shape = "individual"
    THEN IF k <= Len(sresponse[1].individual_summaries)
         THEN sresponse[1].individual_summaries[k].summary
         ELSE NoText
    ELSE sresponse[1].collection_summary

\* C24: when a completion call fails during a summarize request (collection,
\* query-directed or individual), the request still returns success true
\* with status 200, and the corresponding summary field holds placeholder
\* text that embeds the underlying cause.
C24_FailedCallGivesPlaceholder ==
    (spc[1] = "done" /\ \E k \in 1..Len(sent[1]) : CallFailed(sent[1][k])) =>
        /\ sresponse[1].status = 200
        /\ sresponse[1].success
        /\ \A k \in 1..Len(sent[1]) :
              CallFailed(sent[1][k]) =>
                  /\ SummaryFieldOf(k).text =
                        (IF sent[1][k].shape = "individual"
                         THEN "Error generating summary"
                         ELSE IF sent[1][k].shape = "query"
                         THEN "Error generating custom summary"
                         ELSE "Error generating collection summary")
                  /\ SummaryFieldOf(k).cause =
                        (IF sent[1][k].outcome = "raises" THEN "APIError"
                         ELSE IF sent[1][k].outcome = "no_choice" THEN "IndexError"
                         ELSE "AttributeError")

\* C25: the individual-issue prompt renders the issue's full comment thread:
\* one author+body line for every comment of the thread, in thread order,
\* none omitted or truncated, and the placeholder 'No comments' exactly when
\* the thread is empty; the description placeholder is used exactly when the
\* description is absent or empty, the full description otherwise.
C25_PromptRendersFullThread ==
    (SummarizedByClient /\ summary_type[1] = "individual") =>
        \A k \in 1..Len(issues_data[1]) :
            LET content == sent[1][k].content
                thread == CommentsOf(issues_data[1][k])
                description == issues_data[1][k].description
                rendered == LinesOf(content, "comment")
            IN  /\ sent[1][k].shape = "individual"
                /\ Len(rendered) = Len(thread)
                /\ \A j \in 1..Len(thread) :
                      /\ "author" \in DOMAIN thread[j]
                      /\ "body" \in DOMAIN thread[j]
                      /\ rendered[j].who = thread[j].author
                      /\ rendered[j].text = thread[j].body
                /\ (LinesOf(content, "no_comments") # <<>>) <=> (thread = <<>>)
                /\ (LinesOf(content, "no_description") # <<>>) <=> (description = <<>>)
                /\ description # <<>> =>
                      /\ Len(LinesOf(content, "description")) = 1
                      /\ LinesOf(content, "description")[1].text = description

\* The error markers among the elements of an attached thread.
ErrorMarkersOf(thread) == SelectSeq(thread, IsErrorMarker)

\* The number of notes of issues[k]'s thread before the first one that
\* cannot be converted.
ReadBeforeFailure(k) ==
    LET bad == { j \in 1..Len(notes[k].thread) : notes[k].thread[j].author = NoAuthor }
    IN  IF bad = {} THEN Len(notes[k].thread)
        ELSE (CHOOSE j \in bad : \A i \in bad : j <= i) - 1

BudgetOfShape(shape) ==
    IF shape = "individual" THEN 200
    ELSE IF shape = "collection" THEN 200
    ELSE IF shape = "query" THEN 300
    ELSE IF shape = "comment" THEN 80
    ELSE 0

\* A completion call made for a caller with the given model override and
\* provider identity has its shape's budget, the one temperature, and the
\* override as its model or, without one, the provider's default model.
CallAsSpecified(call, override, name) ==
    /\ call.max_tokens = BudgetOfShape(call.shape)
    /\ call.temperature = "0.3"
    /\ override # "None" => call.model = override
    /\ (override = "None" /\ name = "groq") => call.model = "llama-3.3-70b-versatile"
    /\ (override = "None" /\ name = "openai") => call.model = "gpt-3.5-turbo"

\* C26: every completion call is made with the response budget of its prompt
\* shape (individual 200, collection 200, query-directed 300, comment 80
\* tokens), the same temperature, and the caller's model override when one
\* is given, otherwise the default model of the provider identity in use
\* (groq: llama-3.3-70b-versatile, openai: gpt-3.5-turbo).
C26_CallsUseShapeBudgetAndModel ==
    /\ \A t \in Threads : \A k \in 1..Len(sent[t]) :
          /\ sent[t][k].shape \in {"individual", "collection", "query"}
          /\ current_provider[t] \in {"groq", "openai"}
          /\ CallAsSpecified(sent[t][k], model[t], current_provider[t])
    /\ \A k \in 1..Len(fsent) :
          /\ fsent[k].shape = "comment"
          /\ fetch_llm.provider \in {"groq", "openai"}
          /\ CallAsSpecified(fsent[k], fetch_llm.model, fetch_llm.provider)

\* C26 witness: a summarize request without a model override, re-resolved
\* to OpenAI, has sent an individual and a collection call.
C26_Witness ==
    /\ spc[1] = "done"
    /\ model[1] = "None"
    /\ current_provider[1] = "openai"
    /\ got[1][2] = "groq"
    /\ \E k \in 1..Len(sent[1]) : sent[1][k].shape = "individual"
    /\ \E k \in 1..Len(sent[1]) : sent[1][k].shape = "collection"

\* C27: once the process-wide cached client is non-null, no step of any
\* request changes the cached client or the cached provider identity, and a
\* request that names the cached provider goes on with the cached client.
C27_CacheIsWrittenOnce ==
    [][_llm_client # None =>
          /\ _llm_client' = _llm_client
          /\ _llm_provider' = _llm_provider
          /\ \A t \in Threads :
                (spc[t] = "return" /\ spc'[t] = "call"
                 /\ provider[t] = _llm_provider) =>
                    /\ llm_client'[t] = _llm_client
                    /\ current_provider'[t] = _llm_provider]_vars

\* C28: get_llm_client tries only the first provider whose credential is
\* present: with the Groq credential it never caches an OpenAI client, and
\* when the Groq construction fails it returns a null client, which the
\* request reports as unavailable without a completion call; a null cached
\* client stays null until the next call of get_llm_client, which goes
\* through the setup again.
C28_FailedFirstProviderIsNotReplaced ==
    [][/\ (CacheWasEmpty /\ environ.GROQ_API_KEY) =>
             /\ _llm_provider' = "groq"
             /\ _llm_client' # None => _llm_client'.prov = "groq"
       /\ (Returned /\ _llm_client = None) =>
             /\ got'[1][1] = None
             /\ llm_client'[1] = None
             /\ sresponse'[1] = Unavailable
             /\ sent'[1] = <<>>
       /\ (_llm_client = None /\ ~CacheWasEmpty) => _llm_client' = None
       /\ (_llm_client = None /\ spc[1] = "get") => spc'[1] = "setup"]_vars

\* C28 witness: both credentials are set, an earlier request's Groq
\* construction failed and left a null client cached under the name groq,
\* and a later request is in get_llm_client's setup again.
C28_Witness ==
    /\ environ.GROQ_API_KEY
    /\ environ.OPENAI_API_KEY
    /\ _llm_client = None
    /\ _llm_provider = "groq"
    /\ spc[1] = "setup"

====
